---- MODULE Spec2Model ----
(***************************************************************************)
(* IoT temperature simulation: time alignment (app/core/utils.py), the     *)
(* retrying sender and the reading generator (app/simulation/simulator.py) *)
(* and the simulation driver (app/simulation/runner.py); the ingestion and *)
(* average endpoints (app/api/v1/temperature.py, app/api/v1/schemas.py)    *)
(* with their storage calls (app/db/queries.py).                           *)
(*                                                                         *)
(* Optional values (Python's None) are sequences of length at most one:    *)
(* <<>> is None and <<v>> is the value v.                                  *)
(***************************************************************************)
EXTENDS Integers, Sequences, FiniteSets, TLC

VARIABLES
    \* ---- align_time_to_interval(now, interval), one call
    alignPc,     \* "idle" | "called" | "returned"
    now,         \* argument: a datetime record
    interval,    \* argument: minutes
    aligned,     \* Optional return value
    \* ---- the coroutines of the simulator: coro[i] is the frame of one task,
    \*      a generate_temperature_data call with the send_with_retry call it
    \*      awaits, or a send_with_retry call made directly
    coro,
    \* ---- run_simulation()
    runnerPc,    \* "idle" | "ready" | "gather" | "done" | "raised" | "cancelled"
    tasks,       \* the coroutines run_simulation built, as <<building, room>>
    cancelRequested,
    \* ---- the API: api[r] is the frame of one HTTP request being served
    api,
    \* ---- storage: the temperatures table and the continuous aggregate view
    db

alignVars == <<alignPc, now, interval, aligned>>
simVars == <<coro, runnerPc, tasks, cancelRequested>>
apiVars == <<api, db>>
vars == <<alignVars, simVars, apiVars>>

(***************************************************************************)
(* Bounds of the model.                                                    *)
(***************************************************************************)
MaxInterval == 62      \* intervals 1..MaxInterval (past 60, so some exceed the hour)
FirstDay == 2          \* first day `now` is drawn from (datetime.min is day 1)
NumDays == 2           \* consecutive days `now` is drawn from
MaxRetries == 3        \* retries 0..MaxRetries in a direct call of send_with_retry
MaxBackoff == 2        \* backoff_factor 0..MaxBackoff in a direct call
MaxIterations == 2     \* max_iterations 0..MaxIterations in a direct generator call
MaxTick == 1           \* the clock advances 1..MaxTick between two readings
MaxReadings == 4       \* readings explored in all when max_iterations is None
MaxFairReadings == 2   \* readings explored per generator under the fair loop

(***************************************************************************)
(* Program constants.                                                      *)
(***************************************************************************)
BUILDINGS_AND_ROOMS == << <<"B1", "101">>, <<"B1", "102">>, <<"B2", "201">> >>
DefaultRetries == 3
DefaultBackoffFactor == 2
CreatedStatus == 201
MinTemp == -5000       \* min_temp=-50, in hundredths of a degree
MaxTemp == 5000        \* max_temp=50, in hundredths of a degree
TIMEZONE == "Europe/Zurich"

RECURSIVE Pow(_, _)
\* b ** e for an integer e >= 0; Python's 0 ** 0 is 1
Pow(b, e) == IF e = 0 THEN 1 ELSE b * Pow(b, e - 1)

(***************************************************************************)
(* datetime: [day, hour, minute, second, microsecond], day a proleptic     *)
(* ordinal. Arithmetic is wall-clock arithmetic: replace() and subtracting *)
(* a timedelta carry a tzinfo unchanged. `now` is drawn from days after    *)
(* datetime.min far enough that the subtraction stays in range.            *)
(***************************************************************************)
ToSeconds(dt) == ((dt.day * 24 + dt.hour) * 60 + dt.minute) * 60 + dt.second

FromSeconds(s, us) ==
    [day |-> s \div 86400,
     hour |-> (s % 86400) \div 3600,
     minute |-> (s % 3600) \div 60,
     second |-> s % 60,
     microsecond |-> us]

\* dt - timedelta(minutes=m)
MinusMinutes(dt, m) == FromSeconds(ToSeconds(dt) - m * 60, dt.microsecond)

\* a - b as a normalised timedelta [seconds, microseconds], 0 <= microseconds < 10^6
Delta(a, b) ==
    LET s == ToSeconds(a) - ToSeconds(b)
        us == a.microsecond - b.microsecond
    IN  IF us < 0 THEN [seconds |-> s - 1, microseconds |-> us + 1000000]
                  ELSE [seconds |-> s, microseconds |-> us]

\* timedelta(minutes=m) <= d   and   d < timedelta(minutes=m), for a normalised d
AtLeastMinutes(d, m) == d.seconds >= m * 60
LessThanMinutes(d, m) == d.seconds < m * 60

\* faulty variant: the minute is rounded to the nearest multiple of the interval
AlignedMinutes_Nearest(n, i) == ((n.minute + i \div 2) \div i) * i

AlignedMinutes(n, i) == (n.minute \div i) * i

\* faulty variant: replace() without second=0, microsecond=0
AlignedTime_KeepSeconds(n, i) == [n EXCEPT !.minute = AlignedMinutes(n, i)]

AlignedTime(n, i) ==
    [n EXCEPT !.minute = AlignedMinutes(n, i), !.second = 0, !.microsecond = 0]

\* faulty variant: the interval is not subtracted after flooring
align_time_NoSubtract(n, i) == AlignedTime(n, i)

align_time_to_interval(n, i) == MinusMinutes(AlignedTime(n, i), i)

Datetimes ==
    [day : FirstDay .. (FirstDay + NumDays - 1),
     hour : {0, 11, 23},
     minute : 0 .. 59,
     second : {0, 59},
     microsecond : {0, 999999}]

Intervals == 1 .. MaxInterval

NoDatetime == [day |-> FirstDay, hour |-> 0, minute |-> 0, second |-> 0,
               microsecond |-> 0]

AlignIdle ==
    /\ alignPc = "idle"
    /\ now = NoDatetime
    /\ interval = 1
    /\ aligned = <<>>

SimIdle ==
    /\ coro = <<>>
    /\ runnerPc = "idle"
    /\ tasks = <<>>
    /\ cancelRequested = FALSE

ApiIdle ==
    /\ api = <<>>
    /\ db = [temperatures |-> <<>>, avg_temperature_time_interval |-> {}]

(***************************************************************************)
(* align_time_to_interval called once with an explicit interval.           *)
(***************************************************************************)
InitAlign ==
    /\ alignPc = "called"
    /\ now \in Datetimes
    /\ interval \in Intervals
    /\ aligned = <<>>
    /\ SimIdle
    /\ ApiIdle

Align ==
    /\ alignPc = "called"
    /\ aligned' = <<align_time_to_interval(now, interval)>>
    /\ alignPc' = "returned"
    /\ UNCHANGED <<now, interval, simVars, apiVars>>

NextAlign == Align

SpecAlign == InitAlign /\ [][NextAlign]_vars

\* C1: for every instant now and every positive interval, the instant t that
\* align_time_to_interval returns satisfies interval <= now - t < 2*interval minutes.
C1_AlignWindow ==
    alignPc = "returned" =>
        LET d == Delta(now, aligned[1])
        IN  AtLeastMinutes(d, interval) /\ LessThanMinutes(d, 2 * interval)

\* the subtraction crosses midnight and now is the last microsecond of its minute
C1_Witness ==
    /\ alignPc = "returned"
    /\ aligned[1].day < now.day
    /\ now.second = 59 /\ now.microsecond = 999999
    /\ interval > 1

\* C2 as stated: for every positive interval the result has zero seconds and
\* microseconds and a minute-of-hour that is a multiple of interval.
C2_Original ==
    alignPc = "returned" =>
        /\ aligned[1].second = 0
        /\ aligned[1].microsecond = 0
        /\ aligned[1].minute % interval = 0

\* C2 amended: the result always has zero seconds and microseconds, and its
\* minute-of-hour is a multiple of interval whenever interval evenly divides 60.
C2_AlignedWhenDivides60 ==
    alignPc = "returned" =>
        /\ aligned[1].second = 0
        /\ aligned[1].microsecond = 0
        /\ (60 % interval = 0 => aligned[1].minute % interval = 0)

\* interval divides 60 and subtracting it crosses the hour, from a now with seconds
C2_Witness ==
    /\ alignPc = "returned"
    /\ 60 % interval = 0 /\ interval > 1
    /\ now.minute < interval
    /\ now.second # 0 /\ now.microsecond # 0
    /\ aligned[1].minute = 60 - interval

(***************************************************************************)
(* The simulator. A coroutine runs without interruption from one           *)
(* suspension point to the next (asyncio is cooperative), so each action   *)
(* below is one such run: it resumes a frame at the await it is suspended  *)
(* in and executes up to the next await or to the end of the coroutine.    *)
(* The operators that follow are the pieces of code such a run executes,   *)
(* as functions from a frame to the frame.                                 *)
(*                                                                         *)
(* Frame fields                                                            *)
(*   genPc            "none" | "ready" | "send" | "sleep" | "done" |       *)
(*                    "raised" | "cancelled"                               *)
(*   building_id, room_id, max_iterations (Optional), iteration,          *)
(*   temperature_data (Optional)            the generator's locals         *)
(*   handed           every payload handed to send_with_retry, in order    *)
(*   periodSleeps     number of asyncio.sleep(settings.data_interval)      *)
(*   log              the generator's log lines, <<level, reading>>        *)
(*   sendPc           "idle" | "called" | "post" | "sleep" | "returned" |  *)
(*                    "cancelled"                                          *)
(*   payload (Optional), retries, backoff_factor, attempt                  *)
(*                                          send_with_retry's locals       *)
(*   trace            calls made by the current send_with_retry call:      *)
(*                    <<"post", attempt>> and <<"sleep", delay>>           *)
(*   outcomes         outcome of every completed POST of the current call  *)
(*   result (Optional) value the current call returned                     *)
(*   must_cancel      the task was cancelled and has not yet been resumed  *)
(***************************************************************************)

\* datetime.now(TIMEZONE): the clock reading with the tzinfo attached
Now(instant) == [instant |-> instant, tzinfo |-> <<TIMEZONE>>]

\* faulty variant: the text carries no UTC offset
isoformat_NoOffset(ts) == <<ts.instant>>

\* timestamp.isoformat(): the instant, followed by the UTC offset when aware
isoformat(ts) == <<ts.instant>> \o ts.tzinfo

\* outcome of one POST: an exception raised by the transport, or a response
Outcome(raised, status) == [raised |-> raised, status |-> status]
Statuses == {200, CreatedStatus, 500}
Outcomes == {Outcome(TRUE, 0)} \cup {Outcome(FALSE, s) : s \in Statuses}

\* faulty variant: any 2xx status counts as success
IsCreated_Any2xx(o) == ~o.raised /\ o.status >= 200 /\ o.status < 300

\* `response.status == 201`, reached only when post() did not raise
IsCreated(o) == ~o.raised /\ o.status = CreatedStatus

\* faulty variant: linear backoff
BackoffDelay_Linear(b, a) == b * a

\* backoff_factor ** attempt
BackoffDelay(b, a) == Pow(b, a)

\* faulty variant: the generator stops after a failed send
AfterSend_StopOnFailure(t) ==
    IF t.result[1]
    THEN [t EXCEPT !.log = Append(@, <<"info", t.temperature_data[1]>>),
                   !.iteration = @ + 1,
                   !.periodSleeps = @ + 1,
                   !.genPc = "sleep"]
    ELSE [t EXCEPT !.log = Append(@, <<"error", t.temperature_data[1]>>),
                   !.genPc = "raised"]

\* generate_temperature_data after `await send_with_retry(...)`: log, count,
\* and suspend in asyncio.sleep(settings.data_interval)
AfterSend(t) ==
    [t EXCEPT !.log = Append(@, <<IF t.result[1] THEN "info" ELSE "error",
                                  t.temperature_data[1]>>),
              !.iteration = @ + 1,
              !.periodSleeps = @ + 1,
              !.genPc = "sleep"]

\* `return value` of send_with_retry, and the awaiting generator (if any) goes on
Return(t, value) ==
    LET r == [t EXCEPT !.sendPc = "returned", !.result = <<value>>]
    IN  IF t.genPc = "send" THEN AfterSend(r) ELSE r

\* faulty variant: the body of the loop runs once before retries is looked at
ForLoop_AtLeastOnce(t) ==
    IF t.attempt = 0 \/ t.attempt < t.retries
    THEN [t EXCEPT !.sendPc = "post", !.trace = Append(@, <<"post", t.attempt>>)]
    ELSE Return(t, FALSE)

\* faulty variant: range(retries + 1), one attempt too many
ForLoop_OneMore(t) ==
    IF t.attempt < t.retries + 1
    THEN [t EXCEPT !.sendPc = "post", !.trace = Append(@, <<"post", t.attempt>>)]
    ELSE Return(t, FALSE)

\* `for attempt in range(retries)` with t.attempt the next index: issue the
\* POST and suspend in it, or fall out of the loop and return False
ForLoop(t) ==
    IF t.attempt < t.retries
    THEN [t EXCEPT !.sendPc = "post", !.trace = Append(@, <<"post", t.attempt>>)]
    ELSE Return(t, FALSE)

\* send_with_retry(url, payload, retries, backoff_factor) up to its first await
CallSend(t, payload, r, b) ==
    ForLoop([t EXCEPT !.payload = <<payload>>, !.retries = r,
                      !.backoff_factor = b, !.attempt = 0, !.trace = <<>>,
                      !.outcomes = <<>>, !.result = <<>>])

\* faulty variant: the backoff sleep is skipped when no attempt remains
PostDone_SleepOnlyBetween(t, o) ==
    LET u == [t EXCEPT !.outcomes = Append(@, o)]
    IN  IF IsCreated(o) THEN Return(u, TRUE)
        ELSE IF t.attempt + 1 < t.retries
        THEN [u EXCEPT !.sendPc = "sleep",
                       !.trace = Append(@, <<"sleep",
                                   BackoffDelay(t.backoff_factor, t.attempt)>>)]
        ELSE Return(u, FALSE)

\* faulty variant: an exception of the transport propagates to the caller
PostDone_Propagate(t, o) ==
    LET u == [t EXCEPT !.outcomes = Append(@, o)]
    IN  IF o.raised THEN [u EXCEPT !.sendPc = "raised"]
        ELSE IF IsCreated(o) THEN Return(u, TRUE)
        ELSE [u EXCEPT !.sendPc = "sleep",
                       !.trace = Append(@, <<"sleep",
                                   BackoffDelay(t.backoff_factor, t.attempt)>>)]

\* the POST ended with outcome o: return True on 201; on any other status and
\* on any exception log it and suspend in asyncio.sleep(backoff_factor**attempt)
PostDone(t, o) ==
    LET u == [t EXCEPT !.outcomes = Append(@, o)]
    IN  IF IsCreated(o) THEN Return(u, TRUE)
        ELSE [u EXCEPT !.sendPc = "sleep",
                       !.trace = Append(@, <<"sleep",
                                   BackoffDelay(t.backoff_factor, t.attempt)>>)]

\* the backoff sleep ended: next index of the for loop
SleepDone(t) == ForLoop([t EXCEPT !.attempt = @ + 1])

Reading(building, room, temperature, ts) ==
    [building_id |-> building, room_id |-> room, temperature |-> temperature,
     timestamp |-> isoformat(ts)]

\* faulty variant: `iteration <= max_iterations`
LoopCondition_OffByOne(t) ==
    t.max_iterations = <<>> \/ t.iteration <= t.max_iterations[1]

\* faulty variant: `max_iterations` None is taken for a bound of zero
LoopCondition_NoneEnds(t) ==
    t.max_iterations # <<>> /\ t.iteration < t.max_iterations[1]

\* `max_iterations is None or iteration < max_iterations`
LoopCondition(t) ==
    t.max_iterations = <<>> \/ t.iteration < t.max_iterations[1]

\* faulty variant: a reading whose send failed is sent again by the next iteration
NextReading_ResendFailed(t, temperature, instant) ==
    IF t.log # <<>> /\ t.log[Len(t.log)][1] = "error"
    THEN t.temperature_data[1]
    ELSE Reading(t.building_id, t.room_id, temperature, Now(instant))

\* the reading one iteration builds from the clock and the random temperature
NextReading(t, temperature, instant) ==
    Reading(t.building_id, t.room_id, temperature, Now(instant))

\* head of the while loop of generate_temperature_data, with the temperature
\* generate_random_temperature() returns and the instant the clock shows
WhileLoop(t, temperature, instant) ==
    IF LoopCondition(t)
    THEN IF Now(instant).tzinfo = <<>>
         THEN [t EXCEPT !.genPc = "raised"]
         ELSE LET data == NextReading(t, temperature, instant)
              IN  CallSend([t EXCEPT !.temperature_data = <<data>>,
                                     !.handed = Append(@, data),
                                     !.genPc = "send"],
                           data, DefaultRetries, DefaultBackoffFactor)
    ELSE [t EXCEPT !.genPc = "done"]

NewFrame ==
    [genPc |-> "none", building_id |-> "", room_id |-> "",
     max_iterations |-> <<>>, iteration |-> 0, temperature_data |-> <<>>,
     handed |-> <<>>, periodSleeps |-> 0, log |-> <<>>,
     sendPc |-> "idle", payload |-> <<>>, retries |-> 0, backoff_factor |-> 0,
     attempt |-> 0, trace |-> <<>>, outcomes |-> <<>>, result |-> <<>>,
     must_cancel |-> FALSE]

\* the coroutine generate_temperature_data(building, room, max_iterations)
Generator(building, room, max_it) ==
    [NewFrame EXCEPT !.genPc = "ready", !.building_id = building,
                     !.room_id = room, !.max_iterations = max_it]

\* the coroutine send_with_retry(url, payload, retries, backoff_factor)
Sender(payload, r, b) ==
    [NewFrame EXCEPT !.sendPc = "called", !.payload = <<payload>>,
                     !.retries = r, !.backoff_factor = b]

\* the clock is read after a positive sleep, so it shows a later instant
LastInstant(t) == IF t.handed = <<>> THEN 0 ELSE t.handed[Len(t.handed)].timestamp[1]
LaterInstants(t) == {LastInstant(t) + d : d \in 1 .. MaxTick}
NextInstant(t) == LastInstant(t) + 1

\* values random.uniform(min_temp, max_temp) returns, in thousandths of a
\* degree: both ends, a value next to each end, one in between
UniformSamples ==
    {MinTemp * 10, MinTemp * 10 + 4, 22504, MaxTemp * 10 - 4, MaxTemp * 10}

\* round(random.uniform(min_temp, max_temp), 2), in hundredths of a degree
generate_random_temperature(u) == (u + 5) \div 10

\* values generate_random_temperature() returns, in hundredths of a degree
Temperatures == {generate_random_temperature(u) : u \in UniformSamples}

----------------------------------------------------------------------------
(* Actions: one resumption of the task g each.                             *)

\* the first step of a directly awaited send_with_retry
SendStart(g) ==
    /\ coro[g].sendPc = "called"
    /\ ~coro[g].must_cancel
    /\ coro' = [coro EXCEPT ![g] = ForLoop(@)]
    /\ UNCHANGED <<alignVars, apiVars, runnerPc, tasks, cancelRequested>>

\* session.post(...) ends with outcome o
PostCompletes(g, o) ==
    /\ coro[g].sendPc = "post"
    /\ ~coro[g].must_cancel
    /\ coro' = [coro EXCEPT ![g] = PostDone(@, o)]
    /\ UNCHANGED <<alignVars, apiVars, runnerPc, tasks, cancelRequested>>

\* asyncio.sleep(backoff_factor ** attempt) ends
BackoffCompletes(g) ==
    /\ coro[g].sendPc = "sleep"
    /\ ~coro[g].must_cancel
    /\ coro' = [coro EXCEPT ![g] = SleepDone(@)]
    /\ UNCHANGED <<alignVars, apiVars, runnerPc, tasks, cancelRequested>>

RECURSIVE TotalHanded(_)
TotalHanded(c) ==
    IF c = <<>> THEN 0 ELSE Len(c[Len(c)].handed) + TotalHanded(SubSeq(c, 1, Len(c) - 1))

\* with max_iterations None the loop never ends: explore MaxReadings readings
WithinBound(t) == t.max_iterations = <<>> => TotalHanded(coro) < MaxReadings

\* the task g runs generate_temperature_data from its start to its first await
Begin(g, temperature, instant) ==
    /\ coro[g].genPc = "ready"
    /\ ~coro[g].must_cancel
    /\ coro' = [coro EXCEPT ![g] = WhileLoop(@, temperature, instant)]
    /\ UNCHANGED <<alignVars, apiVars, runnerPc, tasks, cancelRequested>>

\* the task g is resumed after asyncio.sleep(settings.data_interval): back to
\* the head of the loop and on to the next await
Wake(g, temperature, instant) ==
    /\ coro[g].genPc = "sleep"
    /\ ~coro[g].must_cancel
    /\ coro' = [coro EXCEPT ![g] = WhileLoop(@, temperature, instant)]
    /\ UNCHANGED <<alignVars, apiVars, runnerPc, tasks, cancelRequested>>

\* the first step of generate_temperature_data
GenStart(g, temperature, instant) ==
    /\ WithinBound(coro[g])
    /\ Begin(g, temperature, instant)

\* asyncio.sleep(settings.data_interval) ends: back to the head of the loop
PeriodCompletes(g, temperature, instant) ==
    /\ WithinBound(coro[g])
    /\ Wake(g, temperature, instant)

(***************************************************************************)
(* send_with_retry awaited directly, as the tests do.                      *)
(***************************************************************************)
TestPayload == Reading("B1", "101", 2250, Now(1))

InitSend ==
    /\ AlignIdle
    /\ \E r \in 0 .. MaxRetries, b \in 0 .. MaxBackoff :
           coro = <<Sender(TestPayload, r, b)>>
    /\ runnerPc = "idle"
    /\ tasks = <<>>
    /\ cancelRequested = FALSE
    /\ ApiIdle

NextSend ==
    \/ SendStart(1)
    \/ \E o \in Outcomes : PostCompletes(1, o)
    \/ BackoffCompletes(1)

SpecSend == InitSend /\ [][NextSend]_vars

(***************************************************************************)
(* generate_temperature_data awaited directly with a bound, as the tests   *)
(* do.                                                                     *)
(***************************************************************************)
InitGenerate ==
    /\ AlignIdle
    /\ \E p \in 1 .. Len(BUILDINGS_AND_ROOMS), n \in 0 .. MaxIterations :
           coro = <<Generator(BUILDINGS_AND_ROOMS[p][1], BUILDINGS_AND_ROOMS[p][2],
                              <<n>>)>>
    /\ runnerPc = "idle"
    /\ tasks = <<>>
    /\ cancelRequested = FALSE
    /\ ApiIdle

NextGenerate ==
    \/ \E temp \in Temperatures, i \in LaterInstants(coro[1]) : GenStart(1, temp, i)
    \/ \E o \in Outcomes : PostCompletes(1, o)
    \/ BackoffCompletes(1)
    \/ \E temp \in Temperatures, i \in LaterInstants(coro[1]) :
           PeriodCompletes(1, temp, i)

SpecGenerate == InitGenerate /\ [][NextGenerate]_vars

(***************************************************************************)
(* run_simulation() as the main task of asyncio.run, which cancels it on   *)
(* an interrupt. Cancelling a task that awaits gather cancels the children *)
(* gather runs; a cancelled child is resumed with CancelledError at the    *)
(* await it is suspended in (send_with_retry's `except Exception` does not *)
(* catch it). The future of gather(return_exceptions=False) completes with *)
(* the results once every child has returned, and with the exception as    *)
(* soon as one child has ended cancelled or by raising. The event loop     *)
(* resumes ready tasks in FIFO order; the model allows any order.          *)
(***************************************************************************)
\* faulty variant: the comprehension loses the last pair
Coroutines_SkipLast(pairs) == SubSeq(pairs, 1, Len(pairs) - 1)

\* [generate_temperature_data(building, room) for building, room in pairs]
Coroutines(pairs) == [i \in 1 .. Len(pairs) |-> <<pairs[i][1], pairs[i][2]>>]

Finished(t) == t.genPc \in {"done", "raised", "cancelled"}

\* faulty variant: the tasks are started and not awaited
GatherReady_NotAwaited(c) == TRUE

\* the future asyncio.gather returned is done
GatherReady(c) ==
    \/ \A i \in 1 .. Len(c) : c[i].genPc = "done"
    \/ \E i \in 1 .. Len(c) : c[i].genPc \in {"raised", "cancelled"}

\* faulty variant: the coroutines are awaited one after the other, so only
\* the first one has been started
gather_Sequential(cs) ==
    [i \in 1 .. Len(cs) |->
        IF i = 1 THEN Generator(cs[i][1], cs[i][2], <<>>)
        ELSE [Generator(cs[i][1], cs[i][2], <<>>) EXCEPT !.genPc = "none"]]

\* asyncio.gather(*tasks): every coroutine is wrapped in a task of its own
\* and scheduled, all of them before the caller is suspended
gather(cs) == [i \in 1 .. Len(cs) |-> Generator(cs[i][1], cs[i][2], <<>>)]

\* run_simulation up to `await asyncio.gather(*tasks)`
RunSimulation ==
    /\ runnerPc = "ready"
    /\ tasks' = Coroutines(BUILDINGS_AND_ROOMS)
    /\ coro' = gather(tasks')
    /\ runnerPc' = "gather"
    /\ UNCHANGED <<alignVars, apiVars, cancelRequested>>

\* faulty variant: a child suspended in the network call is left running
CancelTask_NotInPost(t) ==
    IF Finished(t) \/ t.sendPc = "post" THEN t ELSE [t EXCEPT !.must_cancel = TRUE]

\* child.cancel(), as the gather future does for each child when it is
\* cancelled: no effect on a task that is done, a request to cancel otherwise
CancelTask(t) ==
    IF Finished(t) THEN t ELSE [t EXCEPT !.must_cancel = TRUE]

\* the main task is cancelled while it awaits gather
CancelDriver ==
    /\ runnerPc = "gather"
    /\ ~cancelRequested
    /\ cancelRequested' = TRUE
    /\ coro' = [i \in 1 .. Len(coro) |-> CancelTask(coro[i])]
    /\ UNCHANGED <<alignVars, apiVars, runnerPc, tasks>>

\* a cancelled child is resumed: CancelledError ends it where it is suspended
TaskCancelled(g) ==
    /\ coro[g].must_cancel
    /\ coro' = [coro EXCEPT ![g] =
                  [@ EXCEPT !.must_cancel = FALSE,
                            !.genPc = "cancelled",
                            !.sendPc = IF @ \in {"post", "sleep"} THEN "cancelled"
                                       ELSE @]]
    /\ UNCHANGED <<alignVars, apiVars, runnerPc, tasks, cancelRequested>>

\* `await asyncio.gather(*tasks)` ends
GatherCompletes ==
    /\ runnerPc = "gather"
    /\ GatherReady(coro)
    /\ runnerPc' = IF \E i \in 1 .. Len(coro) : coro[i].genPc = "cancelled"
                    THEN "cancelled"
                    ELSE IF \E i \in 1 .. Len(coro) : coro[i].genPc = "raised"
                    THEN "raised"
                    ELSE "done"
    /\ UNCHANGED <<alignVars, apiVars, coro, tasks, cancelRequested>>

\* inputs explored under run_simulation
SimTemperatures == {2250}
SimOutcomes == {Outcome(TRUE, 0), Outcome(FALSE, CreatedStatus)}

Init ==
    /\ AlignIdle
    /\ coro = <<>>
    /\ runnerPc = "ready"
    /\ tasks = <<>>
    /\ cancelRequested = FALSE
    /\ ApiIdle

Next ==
    \/ RunSimulation
    \/ \E g \in DOMAIN coro, temp \in SimTemperatures :
           GenStart(g, temp, NextInstant(coro[g]))
    \/ \E g \in DOMAIN coro, o \in SimOutcomes : PostCompletes(g, o)
    \/ \E g \in DOMAIN coro : BackoffCompletes(g)
    \/ \E g \in DOMAIN coro, temp \in SimTemperatures :
           PeriodCompletes(g, temp, NextInstant(coro[g]))
    \/ CancelDriver
    \/ \E g \in DOMAIN coro : TaskCancelled(g)
    \/ GatherCompletes

Spec == Init /\ [][Next]_vars

(***************************************************************************)
(* run_simulation() under a fair event loop, without a cancellation. Every *)
(* generator explores MaxFairReadings readings of its own. The event loop  *)
(* resumes a task once the await it is suspended in has ended; a sleep     *)
(* ends after its delay and a POST ends with a response or an exception    *)
(* (aiohttp's default total timeout at the latest). This is assumed for    *)
(* every generator but the first, which may stay suspended in any of its   *)
(* awaits for ever or fail every send: it stands for any one generator.    *)
(***************************************************************************)
WithinQuota(t) == Len(t.handed) < MaxFairReadings

\* one resumption of the task g
Resume(g) ==
    /\ g \in DOMAIN coro
    /\ \/ \E temp \in SimTemperatures :
              WithinQuota(coro[g]) /\ Begin(g, temp, NextInstant(coro[g]))
       \/ \E o \in SimOutcomes : PostCompletes(g, o)
       \/ BackoffCompletes(g)
       \/ \E temp \in SimTemperatures :
              WithinQuota(coro[g]) /\ Wake(g, temp, NextInstant(coro[g]))

NextFair ==
    \/ RunSimulation
    \/ \E g \in 1 .. Len(BUILDINGS_AND_ROOMS) : Resume(g)

SpecFair ==
    /\ Init
    /\ [][NextFair]_vars
    /\ WF_vars(RunSimulation)
    /\ \A g \in 2 .. Len(BUILDINGS_AND_ROOMS) : WF_vars(Resume(g))

(***************************************************************************)
(* The API. A request is served by one coroutine; api[r] is its frame, and *)
(* each action runs it from one await to the next.                         *)
(*                                                                         *)
(* Strings that are measured (the ids) are sequences of characters. A      *)
(* datetime on the wire is [iso, dt, tzinfo]: iso says whether the text is *)
(* ISO 8601, dt is the wall-clock datetime it spells and tzinfo the UTC    *)
(* offset in minutes it carries, if any. Parsed, it is [dt, tzinfo].       *)
(* Temperatures are in hundredths of a degree.                             *)
(*                                                                         *)
(* Frame fields                                                            *)
(*   endpoint     "add_temperature" | "fetch_average_temperature"          *)
(*   pc           "received" | "commit" | "rollback" | "execute" |         *)
(*                "responded"                                              *)
(*   request      the JSON body, or the query parameters                   *)
(*   session      the rows added to the AsyncSession and not yet flushed   *)
(*   calls        the storage calls made so far, in order                  *)
(*   outcomes     how each awaited storage call ended: "ok", or the        *)
(*                exception it raised                                      *)
(*   start_time   (Optional) the start time the average was asked for      *)
(*   response     (Optional) [status_code, body]                           *)
(***************************************************************************)
MaxLength == 255            \* Field(max_length=255)
TemperatureGe == -5000      \* Field(ge=-50)
TemperatureLe == 5000       \* Field(le=50)
alignment_interval == 4     \* settings.alignment_interval

\* pydantic's datetime parsing: None when the text is not ISO 8601
ParseDatetime(w) == IF w.iso THEN <<[dt |-> w.dt, tzinfo |-> w.tzinfo]>> ELSE <<>>

\* timestamp.astimezone(timezone.utc) of an aware datetime
astimezone_utc(ts) ==
    [dt |-> FromSeconds(ToSeconds(ts.dt) - ts.tzinfo[1] * 60, ts.dt.microsecond),
     tzinfo |-> <<0>>]

\* faulty variant: gt/lt in place of ge/le
TemperatureInRange_Exclusive(t) == t > TemperatureGe /\ t < TemperatureLe

\* faulty variant: the range is not validated
TemperatureInRange_Unchecked(t) == TRUE

\* temperature: float = Field(..., ge=-50, le=50)
TemperatureInRange(t) == t >= TemperatureGe /\ t <= TemperatureLe

\* TemperatureRequest: the fields of a body that fail validation
TemperatureRequestErrors(body) ==
    {f \in {"building_id", "room_id", "temperature", "timestamp"} :
        \/ f = "building_id" /\ Len(body.building_id) > MaxLength
        \/ f = "room_id" /\ Len(body.room_id) > MaxLength
        \/ f = "temperature" /\ ~TemperatureInRange(body.temperature)
        \/ f = "timestamp" /\ ParseDatetime(body.timestamp) = <<>>}

\* faulty variant: an id is only required to be present and at most MaxLength
\* long, as in TemperatureRequest
TemperatureQueryErrors_EmptyAccepted(q) ==
    IF q.building_id = <<>> \/ q.room_id = <<>>
    THEN {"missing"}
    ELSE {f \in {"building_id", "room_id", "query_datetime"} :
            \/ f = "building_id" /\ Len(q.building_id[1]) > MaxLength
            \/ f = "room_id" /\ Len(q.room_id[1]) > MaxLength
            \/ f = "query_datetime" /\ q.query_datetime # <<>>
                                    /\ ParseDatetime(q.query_datetime[1]) = <<>>}

\* TemperatureQuery: validate_fields runs before the fields are validated and
\* rejects a missing or empty id; then min_length, max_length and the datetime
TemperatureQueryErrors(q) ==
    IF \/ q.building_id = <<>> \/ q.building_id[1] = <<>>
       \/ q.room_id = <<>> \/ q.room_id[1] = <<>>
    THEN {"validate_fields"}
    ELSE {f \in {"building_id", "room_id", "query_datetime"} :
            \/ f = "building_id" /\ (Len(q.building_id[1]) < 1
                                     \/ Len(q.building_id[1]) > MaxLength)
            \/ f = "room_id" /\ (Len(q.room_id[1]) < 1
                                 \/ Len(q.room_id[1]) > MaxLength)
            \/ f = "query_datetime" /\ q.query_datetime # <<>>
                                    /\ ParseDatetime(q.query_datetime[1]) = <<>>}

\* FastAPI's answer to a request that fails validation
RequestValidationError(errors) == [status_code |-> 422, body |-> [detail |-> errors]]

\* http_exception_handler(request, HTTPException(status_code, detail))
http_exception_handler(status_code, detail) ==
    [status_code |-> status_code, body |-> [error |-> detail, code |-> status_code]]

DatabaseError == http_exception_handler(500, "Database error occurred.")

\* the incident id is a fresh uuid4: the text stands for any of them
UnexpectedError ==
    http_exception_handler(500, "An unexpected error occurred. Reference ID: {incident_id}")

\* add_temperature's return value under status_code=201 and AddTemperatureResponse
Created == [status_code |-> 201, body |-> [message |-> "Temperature data added"]]

\* AverageTemperatureResponse: a field the handler's dict lacks is null
AverageTemperatureResponse(average_temperature, message) ==
    [status_code |-> 200,
     body |-> [average_temperature |-> average_temperature, message |-> message]]

\* faulty variant: `if not avg_temp`
NoData_Falsy(avg_temp) == avg_temp = <<>> \/ avg_temp = <<0>>

\* `avg_temp is None`
NoData(avg_temp) == avg_temp = <<>>

\* fetch_average_temperature after `await get_average_temperature(...)`
AverageResponse(avg_temp) ==
    IF NoData(avg_temp)
    THEN AverageTemperatureResponse(<<>>, <<"No data found">>)
    ELSE AverageTemperatureResponse(avg_temp, <<>>)

Respond(f, response) == [f EXCEPT !.pc = "responded", !.response = <<response>>]

\* Temperature(building_id=..., room_id=..., temperature=..., timestamp=...)
Temperature(building_id, room_id, temperature, timestamp) ==
    [building_id |-> building_id, room_id |-> room_id,
     temperature |-> temperature, timestamp |-> timestamp]

\* insert_temperature up to its first await: ValueError for a naive timestamp,
\* which add_temperature's `except Exception` turns into a 500; otherwise the
\* row is added to the session and the coroutine is suspended in db.commit()
insert_temperature(f, building_id, room_id, temperature, timestamp) ==
    LET g == [f EXCEPT !.calls = Append(@, "insert_temperature")]
    IN  IF timestamp.tzinfo = <<>>
        THEN Respond(g, UnexpectedError)
        ELSE [g EXCEPT !.session = Append(@, Temperature(building_id, room_id,
                                       temperature, astimezone_utc(timestamp))),
                       !.calls = @ \o <<"add", "commit">>,
                       !.pc = "commit"]

\* POST /v1/temperature/ from the arrival of the request to the first await
add_temperature(f) ==
    LET errors == TemperatureRequestErrors(f.request)
    IN  IF errors # {}
        THEN Respond(f, RequestValidationError(errors))
        ELSE insert_temperature(f, f.request.building_id, f.request.room_id,
                                f.request.temperature,
                                ParseDatetime(f.request.timestamp)[1])

\* faulty variant: the error is surfaced without a rollback
CommitFailed_NoRollback(f, error) ==
    Respond([f EXCEPT !.session = <<>>],
            IF error = "SQLAlchemyError" THEN DatabaseError ELSE UnexpectedError)

\* db.commit() raised: a SQLAlchemyError is caught in insert_temperature, which
\* suspends in db.rollback(); any other exception passes through to
\* add_temperature's `except Exception`, and the session is closed by get_db
CommitFailed(f, error) ==
    IF error = "SQLAlchemyError"
    THEN [f EXCEPT !.calls = Append(@, "rollback"), !.pc = "rollback"]
    ELSE Respond([f EXCEPT !.session = <<>>], UnexpectedError)

\* the rows of the view that the statement of get_average_temperature selects
Matching(view, building_id, room_id, start_time) ==
    {row \in view : /\ row.building_id = building_id
                    /\ row.room_id = room_id
                    /\ ToSeconds(row.bucket) >= ToSeconds(start_time.dt)}

\* the rows of the view of a building and room
OfPair(view, building_id, room_id) ==
    {row \in view : row.building_id = building_id /\ row.room_id = room_id}

\* .order_by(AvgTemperature.bucket.desc()).limit(1)
MostRecent(rows) ==
    {row \in rows : \A other \in rows :
                        ToSeconds(other.bucket) <= ToSeconds(row.bucket)}

\* the rows that can come first in the result of the statement
\* get_average_temperature builds for its start_time (None is <<>>)
FirstRows(view, building_id, room_id, start_time) ==
    IF start_time # <<>>
    THEN Matching(view, building_id, room_id, start_time[1])
    ELSE MostRecent(OfPair(view, building_id, room_id))

\* result.scalar(): the first column of the first row, None without a row
scalar(rows) == IF rows = {} THEN {<<>>} ELSE {<<row.avg_temp>> : row \in rows}

\* get_average_temperature(db, building_id, room_id, start_time) called on
\* its own, up to its await
get_average_temperature(f) ==
    [f EXCEPT !.start_time = f.request.start_time,
              !.calls = Append(@, "execute"),
              !.pc = "execute"]

\* what a call that is not an HTTP request hands back to its caller
Returned(f, value) == Respond(f, [returned |-> value])
Raised(f, error) == Respond(f, [raised |-> error])

\* faulty variant: a supplied query_datetime is aligned like the current time
StartTime_AlignsQuery(q, n) ==
    IF q.query_datetime # <<>>
    THEN LET d == ParseDatetime(q.query_datetime[1])[1]
         IN  <<[dt |-> align_time_to_interval(d.dt, alignment_interval),
                tzinfo |-> d.tzinfo]>>
    ELSE <<[dt |-> align_time_to_interval(n, alignment_interval), tzinfo |-> <<>>]>>

\* start_time of fetch_average_temperature: align_time_to_interval(now), a
\* naive datetime, replaced by query.query_datetime when there is one (a
\* datetime is never falsy)
StartTime(q, n) ==
    IF q.query_datetime # <<>>
    THEN ParseDatetime(q.query_datetime[1])
    ELSE <<[dt |-> align_time_to_interval(n, alignment_interval), tzinfo |-> <<>>]>>

\* fetch_average_temperature from the arrival of the request to the first
\* await, with the value datetime.now() returns
fetch_average_temperature(f, n) ==
    LET errors == TemperatureQueryErrors(f.request)
    IN  IF errors # {}
        THEN Respond(f, RequestValidationError(errors))
        ELSE [f EXCEPT !.start_time = StartTime(f.request, n),
                       !.calls = @ \o <<"get_average_temperature", "execute">>,
                       !.pc = "execute"]

NewRequest(endpoint, request) ==
    [endpoint |-> endpoint, pc |-> "received", request |-> request,
     session |-> <<>>, calls |-> <<>>, outcomes |-> <<>>, start_time |-> <<>>,
     response |-> <<>>]

\* the storage call the request is suspended in ended with `outcome`
Ended(f, outcome) == [f EXCEPT !.outcomes = Append(@, outcome)]

----------------------------------------------------------------------------
(* Actions of the API: one resumption of the request r each.               *)

\* the request r, a POST /v1/temperature/, is received
AddTemperature(r) ==
    /\ api[r].pc = "received"
    /\ api[r].endpoint = "add_temperature"
    /\ api' = [api EXCEPT ![r] = add_temperature(@)]
    /\ UNCHANGED <<alignVars, simVars, db>>

\* faulty variant: one session shared by the requests in flight, holding what
\* each of them added
RECURSIVE get_db_Shared(_, _)
get_db_Shared(a, r) ==
    IF a = <<>> THEN <<>>
    ELSE get_db_Shared(SubSeq(a, 1, Len(a) - 1), r) \o a[Len(a)].session

\* get_db: `async with async_session_factory() as session`, a session of the
\* request's own
get_db(a, r) == a[r].session

\* faulty variant: a row replaces the stored rows of its room and instant
commit_Upsert(table, session) ==
    SelectSeq(table, LAMBDA old :
        \A k \in 1 .. Len(session) :
            ~(/\ old.building_id = session[k].building_id
              /\ old.room_id = session[k].room_id
              /\ old.timestamp = session[k].timestamp)) \o session

\* a successful db.commit(): the rows added to the session are inserted, each
\* under a fresh id, after the rows the table holds
commit(table, session) == table \o session

\* db.commit() ends: the rows of the session are in the table and the handler
\* returns, or the commit raised
CommitCompletes(r, outcome) ==
    /\ api[r].pc = "commit"
    /\ IF outcome = "ok"
       THEN /\ db' = [db EXCEPT !.temperatures = commit(@, get_db(api, r))]
            /\ api' = [api EXCEPT ![r] =
                          Respond([Ended(@, outcome) EXCEPT !.session = <<>>], Created)]
       ELSE /\ api' = [api EXCEPT ![r] = CommitFailed(Ended(@, outcome), outcome)]
            /\ UNCHANGED db
    /\ UNCHANGED <<alignVars, simVars>>

\* db.rollback() ends: the session is empty again, insert_temperature re-raises
\* and add_temperature answers with the database error
RollbackCompletes(r) ==
    /\ api[r].pc = "rollback"
    /\ api' = [api EXCEPT ![r] =
                  Respond([Ended(@, "ok") EXCEPT !.session = <<>>], DatabaseError)]
    /\ UNCHANGED <<alignVars, simVars, db>>

\* the request r, a GET /v1/temperature/average, is received at the instant n
FetchAverageTemperature(r, n) ==
    /\ api[r].pc = "received"
    /\ api[r].endpoint = "fetch_average_temperature"
    /\ api' = [api EXCEPT ![r] = fetch_average_temperature(@, n)]
    /\ UNCHANGED <<alignVars, simVars, db>>

\* the call r of get_average_temperature begins
GetAverageTemperature(r) ==
    /\ api[r].pc = "received"
    /\ api[r].endpoint = "get_average_temperature"
    /\ api' = [api EXCEPT ![r] = get_average_temperature(@)]
    /\ UNCHANGED <<alignVars, simVars, db>>

\* db.execute(stmt) ends. result.scalar() is the avg_temp of the first row, or
\* None without a row; the statement with a start time has no ORDER BY, so any
\* matching row may come first. get_average_temperature returns the value, or
\* re-raises; fetch_average_temperature turns either into a response
ExecuteCompletes(r, outcome) ==
    /\ api[r].pc = "execute"
    /\ LET f == Ended(api[r], outcome)
           rows == FirstRows(db.avg_temperature_time_interval,
                             f.request.building_id[1], f.request.room_id[1],
                             f.start_time)
       IN  IF outcome = "ok"
           THEN \E avg_temp \in scalar(rows) :
                    api' = [api EXCEPT ![r] =
                              IF f.endpoint = "get_average_temperature"
                              THEN Returned(f, avg_temp)
                              ELSE Respond(f, AverageResponse(avg_temp))]
           ELSE api' = [api EXCEPT ![r] =
                          IF f.endpoint = "get_average_temperature"
                          THEN Raised(f, outcome)
                          ELSE Respond(f, IF outcome = "SQLAlchemyError"
                                          THEN DatabaseError ELSE UnexpectedError)]
    /\ UNCHANGED <<alignVars, simVars, db>>

(***************************************************************************)
(* One request served against a storage that holds some rows already.      *)
(***************************************************************************)
Long(n) == [i \in 1 .. n |-> "1"]
IdInputs == {<<>>, <<"1">>, <<"1", "0", "1">>, Long(MaxLength), Long(MaxLength + 1)}

TemperatureInputs ==
    {TemperatureGe - 1, TemperatureGe, 0, 2250, TemperatureLe, TemperatureLe + 1}

\* half past midnight: an offset east of UTC takes it to the day before
Midnight30 == [day |-> FirstDay, hour |-> 0, minute |-> 30, second |-> 0,
               microsecond |-> 0]
\* 12:03:27.5, which alignment_interval aligns to 11:56
Noon == [day |-> FirstDay, hour |-> 12, minute |-> 3, second |-> 27,
         microsecond |-> 500000]

WireDatetimes ==
    {[iso |-> FALSE, dt |-> Midnight30, tzinfo |-> <<>>],
     [iso |-> TRUE, dt |-> Midnight30, tzinfo |-> <<>>],
     [iso |-> TRUE, dt |-> Midnight30, tzinfo |-> <<0>>],
     [iso |-> TRUE, dt |-> Midnight30, tzinfo |-> <<60>>]}

Bodies ==
    [building_id : IdInputs, room_id : IdInputs,
     temperature : TemperatureInputs, timestamp : WireDatetimes]

OptionalIds == {<<>>} \cup {<<id>> : id \in IdInputs}

Queries ==
    [building_id : OptionalIds, room_id : OptionalIds,
     query_datetime : {<<>>, <<[iso |-> TRUE, dt |-> Midnight30, tzinfo |-> <<>>]>>}]

\* outcomes of a storage call: it succeeds, raises an SQLAlchemyError, or
\* raises something else
DbOutcomes == {"ok", "SQLAlchemyError", "Exception"}

StoredRow ==
    Temperature(<<"1">>, <<"1", "0", "1">>, 2150,
                [dt |-> Midnight30, tzinfo |-> <<0>>])

AvgRow(bucket, room_id, avg_temp) ==
    [bucket |-> bucket, building_id |-> <<"1">>, room_id |-> room_id,
     avg_temp |-> avg_temp]

\* contents of the view: no row, a row before and a row after 11:56, an
\* average of zero, another room
AvgViews ==
    {{},
     {AvgRow(Midnight30, <<"1", "0", "1">>, 2150)},
     {AvgRow(Noon, <<"1", "0", "1">>, 0)},
     {AvgRow(Midnight30, <<"1", "0", "1">>, 0), AvgRow(Noon, <<"1", "0", "1">>, 2150)},
     {AvgRow(Noon, <<"1">>, 2150)}}

\* arguments of get_average_temperature: start_time is None, or a datetime
StartTimes == {<<>>} \cup {<<[dt |-> d, tzinfo |-> <<>>]>> : d \in {Midnight30, Noon}}
Arguments ==
    [building_id : {<<<<"1">>>>}, room_id : {<<<<"1">>>>, <<<<"1", "0", "1">>>>},
     start_time : StartTimes]

InitApi ==
    /\ AlignIdle
    /\ SimIdle
    /\ \/ \E body \in Bodies : api = <<NewRequest("add_temperature", body)>>
       \/ \E q \in Queries : api = <<NewRequest("fetch_average_temperature", q)>>
       \/ \E a \in Arguments : api = <<NewRequest("get_average_temperature", a)>>
    /\ db \in [temperatures : {<<>>, <<StoredRow>>},
               avg_temperature_time_interval : AvgViews]

NextApi ==
    \/ AddTemperature(1)
    \/ \E outcome \in DbOutcomes : CommitCompletes(1, outcome)
    \/ RollbackCompletes(1)
    \/ FetchAverageTemperature(1, Noon)
    \/ GetAverageTemperature(1)
    \/ \E outcome \in DbOutcomes : ExecuteCompletes(1, outcome)

SpecApi == InitApi /\ [][NextApi]_vars

(***************************************************************************)
(* Several requests in flight at once: each is resumed on its own, in any  *)
(* order, against the one storage.                                         *)
(***************************************************************************)
MaxRequests == 3

\* readings of two rooms at an instant with an offset, one that is out of
\* range, one without an offset
ServedBodies ==
    {[building_id |-> <<"1">>, room_id |-> room_id, temperature |-> temperature,
      timestamp |-> [iso |-> TRUE, dt |-> Midnight30, tzinfo |-> tzinfo]] :
        room_id \in {<<"1", "0", "1">>, <<"1", "0", "2">>},
        temperature \in {2250}, tzinfo \in {<<60>>}}
    \cup {[building_id |-> <<"1">>, room_id |-> <<"1", "0", "1">>,
           temperature |-> TemperatureLe + 1,
           timestamp |-> [iso |-> TRUE, dt |-> Midnight30, tzinfo |-> <<60>>]],
          [building_id |-> <<"1">>, room_id |-> <<"1", "0", "1">>,
           temperature |-> 2250,
           timestamp |-> [iso |-> TRUE, dt |-> Midnight30, tzinfo |-> <<>>]]}

ServedQueries ==
    {[building_id |-> <<<<"1">>>>, room_id |-> <<<<"1", "0", "1">>>>,
      query_datetime |-> <<>>]}

Requests ==
    {NewRequest("add_temperature", body) : body \in ServedBodies}
    \cup {NewRequest("fetch_average_temperature", q) : q \in ServedQueries}

InitServe ==
    /\ AlignIdle
    /\ SimIdle
    /\ api \in [1 .. MaxRequests -> Requests]
    /\ db \in [temperatures : {<<>>, <<StoredRow>>},
               avg_temperature_time_interval :
                   {{AvgRow(Noon, <<"1", "0", "1">>, 2150)}}]

NextServe ==
    \E r \in 1 .. MaxRequests :
        \/ AddTemperature(r)
        \/ \E outcome \in DbOutcomes : CommitCompletes(r, outcome)
        \/ RollbackCompletes(r)
        \/ FetchAverageTemperature(r, Noon)
        \/ \E outcome \in DbOutcomes : ExecuteCompletes(r, outcome)

SpecServe == InitServe /\ [][NextServe]_vars

----------------------------------------------------------------------------
(* Properties of send_with_retry, on the frame of the call.                *)

PostCalls(t) == SelectSeq(t.trace, LAMBDA e : e[1] = "post")
SleepCalls(t) == SelectSeq(t.trace, LAMBDA e : e[1] = "sleep")
Got201(o) == ~o.raised /\ o.status = 201
SomeGot201(t) == \E k \in 1 .. Len(t.outcomes) : Got201(t.outcomes[k])
AllAttemptsFailed(t) == t.sendPc = "returned" /\ ~SomeGot201(t)

\* C3: when every attempt fails (exception or non-201 status) send_with_retry
\* issues exactly `retries` POSTs, never more, and then returns False.
C3_ExactlyRetriesPosts ==
    LET t == coro[1]
    IN  /\ Len(PostCalls(t)) <= t.retries
        /\ AllAttemptsFailed(t) =>
               /\ Len(PostCalls(t)) = t.retries
               /\ Len(t.outcomes) = t.retries
               /\ t.result = <<FALSE>>

\* three attempts failed, by an exception and by a status other than 201
C3_Witness ==
    LET t == coro[1]
    IN  /\ AllAttemptsFailed(t)
        /\ t.retries = 3
        /\ Len(PostCalls(t)) = 3
        /\ \E k \in 1 .. 3 : t.outcomes[k].raised
        /\ \E k \in 1 .. 3 : t.outcomes[k].status = 500

\* C4: when every attempt fails, the calls are POST 0, sleep backoff_factor^0,
\* POST 1, sleep backoff_factor^1, ...: one sleep after each failed attempt,
\* `retries` sleeps in all, each after the attempt with the same index.
C4_SleepAfterEveryAttempt ==
    LET t == coro[1]
    IN  AllAttemptsFailed(t) =>
            /\ Len(t.trace) = 2 * t.retries
            /\ \A a \in 0 .. t.retries - 1 :
                   /\ t.trace[2 * a + 1] = <<"post", a>>
                   /\ t.trace[2 * a + 2] = <<"sleep", Pow(t.backoff_factor, a)>>

\* backoff_factor 2, three failures: sleeps of 1, 2 and 4
C4_Witness ==
    LET t == coro[1]
    IN  /\ AllAttemptsFailed(t)
        /\ t.retries = 3 /\ t.backoff_factor = 2
        /\ SleepCalls(t) = << <<"sleep", 1>>, <<"sleep", 2>>, <<"sleep", 4>> >>

\* C5 as stated: an all-failing run performs max_retries - 1 delays, none
\* after the final attempt.
C5_Original ==
    LET t == coro[1]
    IN  AllAttemptsFailed(t) /\ t.retries >= 1 =>
            Len(SleepCalls(t)) = t.retries - 1

\* C5 amended: after a failed attempt send_with_retry suspends for the backoff
\* delay whether or not attempts remain: every failed attempt so far has its
\* sleep, and a call that returns False made its last call a sleep of
\* backoff_factor^(retries-1), after the final attempt.
C5_SleepAlsoAfterLastAttempt ==
    LET t == coro[1]
        failed == SelectSeq(t.outcomes, LAMBDA o : ~Got201(o))
    IN  /\ Len(SleepCalls(t)) = Len(failed)
        /\ (t.result = <<FALSE>> /\ t.retries >= 1) =>
               /\ t.trace[Len(t.trace)] =
                      <<"sleep", Pow(t.backoff_factor, t.retries - 1)>>
               /\ t.trace[Len(t.trace) - 1] = <<"post", t.retries - 1>>

\* a single attempt, which fails: one POST, then one sleep, then False
C5_Witness ==
    LET t == coro[1]
    IN  /\ t.retries = 1
        /\ t.result = <<FALSE>>
        /\ t.trace = << <<"post", 0>>, <<"sleep", 1>> >>

\* C6: if attempt k is the first to receive 201, the call returns True right
\* after it, having issued k POSTs and k-1 sleeps of backoff_factor^0 ..
\* backoff_factor^(k-2), and does nothing afterwards; every other status
\* (other 2xx included) is a failed attempt.
C6_ReturnsOnFirst201 ==
    LET t == coro[1]
    IN  /\ \A k \in 1 .. Len(t.outcomes) :
               Got201(t.outcomes[k]) =>
                   /\ k = Len(t.outcomes)
                   /\ t.sendPc = "returned" /\ t.result = <<TRUE>>
                   /\ Len(PostCalls(t)) = k
                   /\ SleepCalls(t) =
                          [i \in 1 .. k - 1 |-> <<"sleep", Pow(t.backoff_factor, i - 1)>>]
                   /\ ~ENABLED NextSend
        /\ t.result = <<TRUE>> => SomeGot201(t)
        /\ \A k \in 1 .. Len(t.outcomes) :
               (~Got201(t.outcomes[k]) /\ k < Len(t.outcomes)) =>
                   t.trace[2 * k] = <<"sleep", Pow(t.backoff_factor, k - 1)>>

\* 200 on the first attempt, an exception on the second, 201 on the third
C6_Witness ==
    LET t == coro[1]
    IN  /\ t.result = <<TRUE>>
        /\ t.backoff_factor = 2
        /\ Len(t.outcomes) = 3
        /\ t.outcomes[1] = Outcome(FALSE, 200)
        /\ t.outcomes[2].raised
        /\ SleepCalls(t) = << <<"sleep", 1>>, <<"sleep", 2>> >>

\* C7: send_with_retry never raises because a delivery failed: whatever the
\* outcomes of the attempts, the call goes on until it returns a boolean,
\* True iff some attempt received 201.
C7_NeverRaises ==
    LET t == coro[1]
    IN  /\ t.sendPc \in {"called", "post", "sleep", "returned"}
        /\ t.sendPc # "returned" => (t.result = <<>> /\ ENABLED NextSend)
        /\ t.sendPc = "returned" =>
               /\ t.result \in {<<TRUE>>, <<FALSE>>}
               /\ t.result[1] <=> SomeGot201(t)

\* every attempt raised and the call returned False
C7_Witness ==
    LET t == coro[1]
    IN  /\ t.sendPc = "returned"
        /\ t.result = <<FALSE>>
        /\ Len(t.outcomes) = 2
        /\ \A k \in 1 .. 2 : t.outcomes[k].raised

----------------------------------------------------------------------------
(* Properties of generate_temperature_data called with max_iterations = n. *)

\* C8: with max_iterations = n the generator ends after handing exactly n
\* readings to send_with_retry and after exactly n send-period sleeps, one
\* after every reading, whether the sends succeed or fail.
C8_ExactlyNReadings ==
    LET t == coro[1]
        n == t.max_iterations[1]
    IN  /\ Len(t.handed) <= n /\ t.periodSleeps <= n
        /\ t.periodSleeps = IF t.genPc = "send" THEN Len(t.handed) - 1
                            ELSE Len(t.handed)
        /\ t.genPc = "done" => (Len(t.handed) = n /\ t.periodSleeps = n)
        /\ t.genPc # "done" => ENABLED NextGenerate

\* two readings, one delivered and one not, and the generator has ended
C8_Witness ==
    LET t == coro[1]
    IN  /\ t.genPc = "done"
        /\ t.max_iterations = <<2>>
        /\ Len(t.handed) = 2 /\ t.periodSleeps = 2
        /\ t.log[1][1] = "info" /\ t.log[2][1] = "error"

\* C9: a failed delivery never stops a generator: when send_with_retry returns
\* False the generator logs the failure, still sleeps the send period and then
\* generates and sends the next reading; no reading is handed over twice.
C9_FailureDoesNotStopGenerator ==
    LET t == coro[1]
        n == t.max_iterations[1]
        sent == IF t.genPc = "send" THEN Len(t.handed) - 1 ELSE Len(t.handed)
    IN  /\ t.genPc \in {"ready", "send", "sleep", "done"}
        /\ Len(t.log) = sent /\ t.periodSleeps = sent /\ t.iteration = sent
        /\ \A k \in 1 .. Len(t.log) : t.log[k][2] = t.handed[k]
        /\ (t.genPc # "send" /\ t.result = <<FALSE>>) =>
               t.log[Len(t.log)] = <<"error", t.handed[Len(t.handed)]>>
        /\ (t.genPc # "send" /\ t.result = <<TRUE>>) =>
               t.log[Len(t.log)][1] = "info"
        /\ \A i, j \in 1 .. Len(t.handed) : i # j => t.handed[i] # t.handed[j]
        /\ (t.genPc = "sleep" /\ t.iteration < n) =>
               \E temp \in Temperatures, i \in LaterInstants(t) :
                   ENABLED PeriodCompletes(1, temp, i)
        /\ t.genPc = "done" => t.iteration = n

\* the first reading could not be delivered, and the second one was sent
C9_Witness ==
    LET t == coro[1]
    IN  /\ Len(t.log) >= 1 /\ t.log[1][1] = "error"
        /\ Len(t.handed) = 2
        /\ t.genPc = "send" /\ t.sendPc = "post"
        /\ t.payload = <<t.handed[2]>>

----------------------------------------------------------------------------
(* Properties of run_simulation.                                           *)

\* C10: run_simulation starts exactly one generator for each pair of
\* BUILDINGS_AND_ROOMS, all of them together, and waits for all of them: while
\* a generator is still running it has not completed (it can only be ended
\* by a cancellation, which reaches every generator still running).
C10_OneGeneratorPerPair ==
    /\ runnerPc = "ready" => coro = <<>>
    /\ runnerPc # "ready" =>
           /\ Len(coro) = Len(BUILDINGS_AND_ROOMS)
           /\ \A p \in 1 .. Len(BUILDINGS_AND_ROOMS) :
                  Cardinality({i \in 1 .. Len(coro) :
                      <<coro[i].building_id, coro[i].room_id>>
                          = BUILDINGS_AND_ROOMS[p]}) = 1
           /\ \A i \in 1 .. Len(coro) :
                  /\ coro[i].genPc # "none"
                  /\ coro[i].max_iterations = <<>>
                  /\ \A k \in 1 .. Len(coro[i].handed) :
                         /\ coro[i].handed[k].building_id = coro[i].building_id
                         /\ coro[i].handed[k].room_id = coro[i].room_id
    /\ (\E i \in 1 .. Len(coro) : ~Finished(coro[i]) /\ ~coro[i].must_cancel) =>
           runnerPc = "gather" /\ ~cancelRequested
    /\ runnerPc = "done" => \A i \in 1 .. Len(coro) : coro[i].genPc = "done"

\* the three generators are each in the middle of a POST at the same time
C10_Witness ==
    /\ runnerPc = "gather"
    /\ Len(coro) = 3
    /\ \A i \in 1 .. 3 : coro[i].sendPc = "post" /\ Len(coro[i].handed) = 1
    /\ {coro[i].handed[1].room_id : i \in 1 .. 3} = {"101", "102", "201"}

\* what a generator has done so far: readings handed over, attempts and
\* sleeps of the current send, outcomes received, period sleeps, log lines
Work(t) == <<t.handed, t.trace, t.outcomes, t.periodSleeps, t.log, t.iteration>>

\* the generator i can be resumed in its own code (not by a cancellation)
CanGoOn(i) ==
    \/ ENABLED (\E temp \in SimTemperatures : GenStart(i, temp, NextInstant(coro[i])))
    \/ ENABLED (\E o \in SimOutcomes : PostCompletes(i, o))
    \/ ENABLED BackoffCompletes(i)
    \/ ENABLED (\E temp \in SimTemperatures :
                    PeriodCompletes(i, temp, NextInstant(coro[i])))

\* C11: cancelling run_simulation cancels every generator that is still
\* running: from then on each of them is either ended or about to be ended
\* by CancelledError at the await it is suspended in (the POST, the backoff
\* sleep or the period sleep), none can be resumed in its own code, and no
\* step adds a reading, a POST, a sleep or an outcome to any generator.
C11_CancelStopsEveryGenerator ==
    /\ [](cancelRequested =>
            \A i \in 1 .. Len(coro) :
                /\ Finished(coro[i]) \/ coro[i].must_cancel
                /\ coro[i].must_cancel => ENABLED TaskCancelled(i)
                /\ ~CanGoOn(i))
    /\ [][cancelRequested =>
            \A i \in 1 .. Len(coro) : Work(coro'[i]) = Work(coro[i])]_vars

\* after the cancellation: one generator was ended in its POST, one in its
\* backoff sleep and one in its period sleep
C11_Witness ==
    /\ cancelRequested
    /\ Len(coro) = 3
    /\ \A i \in 1 .. 3 : coro[i].genPc = "cancelled"
    /\ \E i \in 1 .. 3 : /\ coro[i].sendPc = "cancelled"
                         /\ coro[i].trace[Len(coro[i].trace)][1] = "post"
    /\ \E i \in 1 .. 3 : /\ coro[i].sendPc = "cancelled"
                         /\ coro[i].trace[Len(coro[i].trace)][1] = "sleep"
    /\ \E i \in 1 .. 3 : /\ coro[i].sendPc = "returned"
                         /\ coro[i].periodSleeps = Len(coro[i].handed)

\* C13: with max_iterations None a generator never returns and never raises,
\* whatever the outcomes of its sends: it always has a next step (as far as
\* the model explores), gather is never done, and run_simulation ends only
\* as cancelled, after a cancellation from outside.
C13_OnlyCancellationEnds ==
    /\ \A i \in 1 .. Len(coro) :
           /\ coro[i].max_iterations = <<>>
           /\ coro[i].genPc \in {"ready", "send", "sleep", "cancelled"}
           /\ coro[i].genPc = "cancelled" => cancelRequested
           /\ (~cancelRequested /\ TotalHanded(coro) < MaxReadings) => CanGoOn(i)
    /\ runnerPc \in {"ready", "gather", "cancelled"}
    /\ runnerPc = "cancelled" => cancelRequested
    /\ ~cancelRequested => ~ENABLED GatherCompletes

\* a generator is at its third reading after a failed and a delivered one,
\* and run_simulation still awaits gather
C13_Witness ==
    /\ runnerPc = "gather" /\ ~cancelRequested
    /\ \E i \in 1 .. Len(coro) :
           /\ Len(coro[i].handed) = 3
           /\ coro[i].genPc = "send"
           /\ coro[i].log = << <<"error", coro[i].handed[1]>>,
                               <<"info", coro[i].handed[2]>> >>

\* the send_with_retry call of the generator t has not returned
InFlight(t) == t.sendPc \in {"post", "sleep", "cancelled"}

\* C14: within one generator the readings carry strictly increasing
\* timestamps and are handed over one at a time: a reading is built only when
\* every earlier one has had its send returned (True or False), has been
\* logged and has been followed by its period sleep, so at most the last
\* reading handed over is in flight.
C14_OneReadingAtATime ==
    /\ [](\A i \in 1 .. Len(coro) :
            LET t == coro[i]
                n == Len(t.handed)
            IN  /\ \A k \in 1 .. n - 1 :
                       t.handed[k].timestamp[1] < t.handed[k + 1].timestamp[1]
                /\ InFlight(t) => (n >= 1 /\ t.payload = <<t.handed[n]>>)
                /\ Len(t.log) = IF InFlight(t) THEN n - 1 ELSE n
                /\ t.periodSleeps = Len(t.log)
                /\ \A k \in 1 .. Len(t.log) : t.log[k][2] = t.handed[k])
    /\ [][\A i \in 1 .. Len(coro) :
            coro'[i].handed # coro[i].handed =>
                /\ Len(coro'[i].handed) = Len(coro[i].handed) + 1
                /\ SubSeq(coro'[i].handed, 1, Len(coro[i].handed)) = coro[i].handed
                /\ \/ coro[i].genPc = "ready" /\ coro[i].handed = <<>>
                   \/ /\ coro[i].genPc = "sleep"
                      /\ coro[i].sendPc = "returned"
                      /\ coro[i].result \in {<<TRUE>>, <<FALSE>>}
                      /\ coro[i].periodSleeps = Len(coro[i].handed)]_vars

\* the generator started last is at its second reading, after a first one
\* that exhausted its retries, while the one started first has built none
C14_Witness ==
    /\ Len(coro) = 3
    /\ coro[1].handed = <<>> /\ coro[1].genPc = "ready"
    /\ Len(coro[3].handed) = 2
    /\ coro[3].log = << <<"error", coro[3].handed[1]>> >>
    /\ coro[3].sendPc = "post"
    /\ coro[3].handed[1].timestamp[1] < coro[3].handed[2].timestamp[1]

\* number of readings the generator g has handed to send_with_retry
Handed(g) == IF g \in DOMAIN coro THEN Len(coro[g].handed) ELSE 0

\* C12: a generator does not hold up the others. Under a fair event loop,
\* whatever the first generator does (suspended for ever in a POST, a backoff
\* sleep or its period sleep, or failing every send), every other generator
\* eventually hands over its next reading, again and again, up to the
\* MaxFairReadings readings explored for each.
C12_OthersKeepSending ==
    <>[](\A g \in 2 .. Len(BUILDINGS_AND_ROOMS) : Handed(g) = MaxFairReadings)

\* the first generator is still in the third attempt of its first send, both
\* earlier attempts failed, and the others have each sent two readings
C12_Witness ==
    /\ Len(coro) = 3
    /\ Len(coro[1].handed) = 1
    /\ coro[1].sendPc = "post" /\ coro[1].attempt = 2
    /\ \A k \in 1 .. Len(coro[1].outcomes) : ~Got201(coro[1].outcomes[k])
    /\ Len(coro[2].handed) = 2 /\ Len(coro[3].handed) = 2

----------------------------------------------------------------------------
(* Properties of POST /v1/temperature/, on the frame of the request.       *)

IsAdd(f) == f.endpoint = "add_temperature"
IsAverage(f) == f.endpoint = "fetch_average_temperature"

\* what the table held before the request
StoredBefore == {<<>>, <<StoredRow>>}

\* the request has written nothing: the table is as it was
NothingWritten == db.temperatures \in StoredBefore

\* exactly one row was written, the reading of the body at its instant in UTC
OneReadingPersisted(body) ==
    LET T == db.temperatures
        row == T[Len(T)]
    IN  /\ Len(T) >= 1
        /\ SubSeq(T, 1, Len(T) - 1) \in StoredBefore
        /\ row.building_id = body.building_id
        /\ row.room_id = body.room_id
        /\ row.temperature = body.temperature
        /\ row.timestamp.tzinfo = <<0>>
        /\ ToSeconds(row.timestamp.dt) =
               ToSeconds(body.timestamp.dt) - body.timestamp.tzinfo[1] * 60

\* no storage call of the request raised
Healthy(f) == \A k \in 1 .. Len(f.outcomes) : f.outcomes[k] = "ok"

ValidIds(body) ==
    /\ Len(body.building_id) \in 1 .. 255
    /\ Len(body.room_id) \in 1 .. 255

ValidTemperature(body) == body.temperature >= -5000 /\ body.temperature <= 5000

Is201(f) ==
    f.response = <<[status_code |-> 201,
                    body |-> [message |-> "Temperature data added"]]>>

\* C15 as stated: every reading with a temperature in [-50, 50], ids of 1 to
\* 255 characters and a well-formed timestamp is answered, storage being
\* healthy, with 201 and the message, and exactly one reading is persisted.
C15_Original ==
    LET f == api[1]
    IN  (/\ IsAdd(f) /\ f.pc = "responded" /\ Healthy(f)
         /\ ValidTemperature(f.request) /\ ValidIds(f.request)
         /\ f.request.timestamp.iso) =>
            Is201(f) /\ OneReadingPersisted(f.request)

\* C15 amended: the same for every such reading whose timestamp is well formed
\* and carries a UTC offset; until the response nothing is written.
C15_ValidReadingIsStored ==
    LET f == api[1]
    IN  (/\ IsAdd(f) /\ Healthy(f)
         /\ ValidTemperature(f.request) /\ ValidIds(f.request)
         /\ f.request.timestamp.iso /\ f.request.timestamp.tzinfo # <<>>) =>
            /\ f.pc \in {"received", "commit", "responded"}
            /\ f.pc # "responded" => NothingWritten
            /\ f.pc = "responded" => Is201(f) /\ OneReadingPersisted(f.request)

\* 50 degrees, ids of 255 characters, a timestamp at +01:00 half past midnight:
\* stored after the row already there, at 23:30 of the day before in UTC
C15_Witness ==
    LET f == api[1]
    IN  /\ IsAdd(f) /\ Is201(f)
        /\ f.request.temperature = 5000
        /\ Len(f.request.building_id) = 255 /\ Len(f.request.room_id) = 255
        /\ f.request.timestamp.tzinfo = <<60>>
        /\ Len(db.temperatures) = 2
        /\ db.temperatures[2].timestamp.dt.day = FirstDay - 1
        /\ db.temperatures[2].timestamp.dt.hour = 23

\* C16: a reading with a temperature outside [-50, 50] is answered with 422
\* and a detail that names the temperature, before any side effect:
\* insert_temperature is not called, nothing is added to the session and the
\* table is unchanged.
C16_OutOfRangeRejected ==
    LET f == api[1]
    IN  (IsAdd(f) /\ ~ValidTemperature(f.request)) =>
            /\ f.pc \in {"received", "responded"}
            /\ f.calls = <<>> /\ f.session = <<>> /\ f.outcomes = <<>>
            /\ NothingWritten
            /\ f.pc = "responded" =>
                   /\ f.response[1].status_code = 422
                   /\ "temperature" \in f.response[1].body.detail

\* 50.01 degrees in an otherwise valid reading: 422 for the temperature alone
C16_Witness ==
    LET f == api[1]
    IN  /\ IsAdd(f) /\ f.pc = "responded"
        /\ f.request.temperature = 5001
        /\ f.response[1].status_code = 422
        /\ f.response[1].body.detail = {"temperature"}
        /\ db.temperatures = <<StoredRow>>

\* C17 as stated: a reading whose timestamp carries no UTC offset is answered
\* with a validation error, a 4xx and not a 5xx, and nothing is written.
C17_NaiveTimestampIs4xx ==
    LET f == api[1]
    IN  (/\ IsAdd(f) /\ f.pc = "responded"
         /\ f.request.timestamp.iso /\ f.request.timestamp.tzinfo = <<>>) =>
            /\ f.response[1].status_code \in 400 .. 499
            /\ NothingWritten

\* C18 as stated: a reading whose building_id or room_id is empty or longer
\* than 255 characters is answered with 422 and never reaches storage (here
\* for readings whose temperature and timestamp are valid).
C18_IdLengthEnforced ==
    LET f == api[1]
    IN  (/\ IsAdd(f) /\ ~ValidIds(f.request)
         /\ ValidTemperature(f.request)
         /\ f.request.timestamp.iso /\ f.request.timestamp.tzinfo # <<>>) =>
            /\ f.calls = <<>> /\ f.session = <<>>
            /\ NothingWritten
            /\ f.pc = "responded" => f.response[1].status_code = 422

----------------------------------------------------------------------------
(* Properties of GET /v1/temperature/average.                              *)

\* the rows of the view for the ids of the query, from its start time on
RowsFor(f) ==
    {row \in db.avg_temperature_time_interval :
        /\ <<row.building_id>> = f.request.building_id
        /\ <<row.room_id>> = f.request.room_id
        /\ ToSeconds(row.bucket) >= ToSeconds(f.start_time[1].dt)}

IsNoDataResponse(f) ==
    f.response = <<[status_code |-> 200,
                    body |-> [average_temperature |-> <<>>,
                              message |-> <<"No data found">>]]>>

\* C20: the average query answers 200 with a null average and "No data found"
\* exactly when the query went through and the view has no matching row, and
\* 200 with the avg_temp of a matching row and a null message otherwise, zero
\* included; a query that went through is never answered with an error.
C20_NoDataIsNotAnAverage ==
    LET f == api[1]
    IN  (IsAverage(f) /\ f.pc = "responded") =>
            /\ IsNoDataResponse(f) <=> (f.outcomes = <<"ok">> /\ RowsFor(f) = {})
            /\ (f.outcomes = <<"ok">> /\ RowsFor(f) # {}) =>
                   \E row \in RowsFor(f) :
                       f.response =
                           <<[status_code |-> 200,
                              body |-> [average_temperature |-> <<row.avg_temp>>,
                                        message |-> <<>>]]>>
            /\ f.outcomes = <<"ok">> => f.response[1].status_code = 200

\* the only matching row has an average of 0.0, and 0.0 is what is answered
C20_Witness ==
    LET f == api[1]
    IN  /\ IsAverage(f) /\ f.pc = "responded"
        /\ f.request.query_datetime = <<>>
        /\ RowsFor(f) # {} /\ \A row \in RowsFor(f) : row.avg_temp = 0
        /\ f.response[1].body = [average_temperature |-> <<0>>, message |-> <<>>]

----------------------------------------------------------------------------
(* The start time fetch_average_temperature hands to storage.              *)

\* the request went through validation and called get_average_temperature
QueriedStorage(f) ==
    /\ IsAverage(f)
    /\ Len(f.calls) >= 1
    /\ f.calls[1] = "get_average_temperature"

\* C21: the start time handed to get_average_temperature is the supplied
\* query_datetime as it was parsed, untouched by alignment, and otherwise the
\* current time aligned with the configured interval; it is never None, so the
\* statement executed is always the one that filters by bucket >= start_time
C21_StartTimeHandedToStorage ==
    \A r \in DOMAIN api :
        LET f == api[r]
            q == f.request
        IN  /\ IsAverage(f) /\ f.pc = "received" => f.start_time = <<>>
            /\ QueriedStorage(f) =>
                /\ f.start_time # <<>>
                /\ q.query_datetime # <<>> =>
                      /\ f.start_time[1].dt = q.query_datetime[1].dt
                      /\ f.start_time[1].tzinfo = q.query_datetime[1].tzinfo
                /\ q.query_datetime = <<>> =>
                      /\ f.start_time[1].dt =
                             align_time_to_interval(Noon, alignment_interval)
                      /\ f.start_time[1].tzinfo = <<>>
            /\ IsAverage(f) /\ f.calls # <<>> =>
                  f.calls = <<"get_average_temperature", "execute">>

\* a supplied query_datetime that is not a bucket boundary of the interval
\* reached storage as it was
C21_Witness ==
    \E r \in DOMAIN api :
        LET f == api[r]
        IN  /\ QueriedStorage(f)
            /\ f.pc = "responded"
            /\ f.request.query_datetime # <<>>
            /\ f.start_time[1].dt = Midnight30
            /\ align_time_to_interval(Midnight30, alignment_interval) # Midnight30

----------------------------------------------------------------------------
(* What get_average_temperature returns.                                   *)

IsDirectCall(f) == f.endpoint = "get_average_temperature"

\* the call returned a value (None included) and did not raise
HasReturned(f) ==
    /\ IsDirectCall(f)
    /\ f.pc = "responded"
    /\ Healthy(f)

RECURSIVE SumAvgTemp(_)
SumAvgTemp(rows) ==
    IF rows = {} THEN 0
    ELSE LET row == CHOOSE x \in rows : TRUE
         IN  row.avg_temp + SumAvgTemp(rows \ {row})

\* value is the mean of avg_temp over the rows
IsMeanOf(value, rows) ==
    /\ value # <<>>
    /\ value[1] * Cardinality(rows) = SumAvgTemp(rows)

\* with a start time, what is returned comes from the rows of the pair at or
\* after it, and is None without such a row
ReturnedFromMatchingRows ==
    \A r \in DOMAIN api :
        LET f == api[r]
            rows == Matching(db.avg_temperature_time_interval,
                             f.request.building_id[1], f.request.room_id[1],
                             f.start_time[1])
        IN  HasReturned(f) /\ f.request.start_time # <<>> =>
                f.response[1].returned \in
                    IF rows = {} THEN {<<>>} ELSE {<<row.avg_temp>> : row \in rows}

\* without a start time, the value of the most recent bucket of the pair
ReturnedMostRecentBucket ==
    \A r \in DOMAIN api :
        LET f == api[r]
            rows == OfPair(db.avg_temperature_time_interval,
                           f.request.building_id[1], f.request.room_id[1])
        IN  HasReturned(f) /\ f.request.start_time = <<>> /\ rows # {} =>
                \E row \in rows :
                    /\ f.response[1].returned = <<row.avg_temp>>
                    /\ \A other \in rows :
                          ToSeconds(other.bucket) <= ToSeconds(row.bucket)

\* C22: given a start time, get_average_temperature returns the average of
\* avg_temp over all rows of the building and room with bucket >= start_time;
\* given none, the value of the most recent bucket of the pair
C22_AverageOverMatchingRows ==
    /\ ReturnedMostRecentBucket
    /\ \A r \in DOMAIN api :
        LET f == api[r]
            rows == Matching(db.avg_temperature_time_interval,
                             f.request.building_id[1], f.request.room_id[1],
                             f.start_time[1])
        IN  HasReturned(f) /\ f.request.start_time # <<>> /\ rows # {} =>
                IsMeanOf(f.response[1].returned, rows)

----------------------------------------------------------------------------
(* Average queries without a building or a room.                           *)

\* the query parameter is absent, or present with the empty string
MissingOrEmpty(id) == id = <<>> \/ id[1] = <<>>

\* C23: an average query whose building_id or room_id is missing or empty is
\* answered with 422 in the step that receives it: no start time was resolved
\* and no storage call was made, then or later
C23_MissingIdRejectedFirst ==
    \A r \in DOMAIN api :
        LET f == api[r]
        IN  /\ IsAverage(f)
            /\ MissingOrEmpty(f.request.building_id)
                   \/ MissingOrEmpty(f.request.room_id)
            => /\ f.pc \in {"received", "responded"}
               /\ f.start_time = <<>>
               /\ f.calls = <<>>
               /\ f.outcomes = <<>>
               /\ f.pc = "responded" => f.response[1].status_code = 422

\* a query with an empty room_id and a valid building_id was answered
C23_Witness ==
    \E r \in DOMAIN api :
        LET f == api[r]
        IN  /\ IsAverage(f)
            /\ f.request.building_id = <<<<"1">>>>
            /\ f.request.room_id = <<<<>>>>
            /\ f.pc = "responded"
            /\ f.response[1].status_code = 422
            /\ f.calls = <<>>

----------------------------------------------------------------------------
(* Concurrent ingestion.                                                   *)

\* a reading that passes every rule of ingestion
ValidBody(body) ==
    /\ ValidIds(body)
    /\ ValidTemperature(body)
    /\ body.timestamp.iso
    /\ body.timestamp.tzinfo # <<>>

\* the row a valid reading is stored as
RowOf(body) ==
    Temperature(body.building_id, body.room_id, body.temperature,
                astimezone_utc([dt |-> body.timestamp.dt,
                                tzinfo |-> body.timestamp.tzinfo]))

Occurrences(seq, x) == Cardinality({k \in DOMAIN seq : seq[k] = x})

\* the valid ingestion requests that were answered with 201
Answered201 == {r \in DOMAIN api : /\ IsAdd(api[r]) /\ ValidBody(api[r].request)
                                   /\ Is201(api[r])}

\* the table holds what it held before and one row for each request that was
\* answered with 201, no more and no less
OneRowPer201 ==
    \E before \in StoredBefore :
        /\ Len(db.temperatures) = Len(before) + Cardinality(Answered201)
        /\ \A k \in DOMAIN db.temperatures :
              LET x == db.temperatures[k]
              IN  Occurrences(db.temperatures, x) =
                      Occurrences(before, x)
                      + Cardinality({r \in Answered201 : RowOf(api[r].request) = x})

\* C24: whatever the other requests in flight are and however the requests
\* are interleaved, a valid ingestion request whose storage calls succeed is
\* answered with 201, the session it commits holds its own row and nothing
\* else, and its commit stores that row once
C24_ConcurrentIngestion ==
    /\ \A r \in DOMAIN api :
          LET f == api[r]
          IN  IsAdd(f) /\ ValidBody(f.request) =>
                /\ f.session = IF f.pc \in {"commit", "rollback"}
                               THEN <<RowOf(f.request)>> ELSE <<>>
                /\ Healthy(f) => f.pc \in {"received", "commit", "responded"}
                /\ Healthy(f) /\ f.pc = "responded" => Is201(f)
    /\ OneRowPer201

\* every request in flight was a valid ingestion, all were answered with 201,
\* and the row of the last request was stored before the row of the first
C24_Witness ==
    /\ Len(api) >= 2
    /\ \A r \in DOMAIN api : IsAdd(api[r]) /\ ValidBody(api[r].request) /\ Is201(api[r])
    /\ api[1].request # api[Len(api)].request
    /\ Len(db.temperatures) >= Len(api)
    /\ db.temperatures[Len(db.temperatures)] = RowOf(api[1].request)
    /\ \E k \in 1 .. Len(db.temperatures) - 1 :
          db.temperatures[k] = RowOf(api[Len(api)].request)

----------------------------------------------------------------------------
(* The stored readings over the operations of the API.                     *)

\* C25: the stored readings are append-only. The step in which an ingestion
\* is answered with 201 appends its reading and nothing else; every other
\* step of an ingestion (rejected, or failed in storage) and every step of an
\* average query leaves the readings as they were; no step changes or removes
\* a reading that is stored
C25_ReadingsAppendOnly ==
    [][/\ Len(db'.temperatures) >= Len(db.temperatures)
       /\ SubSeq(db'.temperatures, 1, Len(db.temperatures)) = db.temperatures
       /\ \A r \in DOMAIN api :
             api'[r] # api[r] =>
                 IF IsAdd(api[r]) /\ Is201(api'[r])
                 THEN db'.temperatures =
                          Append(db.temperatures, RowOf(api[r].request))
                 ELSE db'.temperatures = db.temperatures]_vars

\* one ingestion was rejected, one failed in its commit and was rolled back,
\* one average query was answered, one ingestion was stored: the table holds
\* one row more than before
C25_Witness ==
    /\ \E r \in DOMAIN api :
          IsAdd(api[r]) /\ api[r].pc = "responded"
          /\ api[r].response[1].status_code = 422
    /\ \E r \in DOMAIN api :
          IsAdd(api[r]) /\ api[r].pc = "responded"
          /\ api[r].outcomes = <<"SQLAlchemyError", "ok">>
    /\ \E r \in DOMAIN api :
          IsAdd(api[r]) /\ Is201(api[r])
          /\ db.temperatures = <<StoredRow, RowOf(api[r].request)>>

----------------------------------------------------------------------------
(* align_time_to_interval and the buckets of an interval that divides 60.  *)

\* the start, in seconds, of the bucket of i minutes that contains dt, the
\* buckets being counted from midnight
BucketStart(dt, i) == ToSeconds(dt) - (ToSeconds(dt) % (i * 60))

\* C26: when interval evenly divides 60, the result is an exact bucket
\* boundary (minute a multiple of interval, seconds and microseconds zero),
\* also when the subtraction crosses an hour or a day, and it is the start of
\* the bucket just before the bucket that contains now
C26_StartOfPrecedingBucket ==
    alignPc = "returned" /\ 60 % interval = 0 =>
        /\ aligned[1].minute % interval = 0
        /\ aligned[1].second = 0
        /\ aligned[1].microsecond = 0
        /\ BucketStart(aligned[1], interval) = ToSeconds(aligned[1])
        /\ ToSeconds(aligned[1]) = BucketStart(now, interval) - interval * 60

\* interval divides 60 and now is in the first bucket of the day, so that the
\* result is the last bucket of the day before
C26_Witness ==
    /\ alignPc = "returned"
    /\ 60 % interval = 0
    /\ interval > 1
    /\ now.hour = 0 /\ now.minute < interval /\ now.minute > 0
    /\ aligned[1].day = now.day - 1
    /\ aligned[1].hour = 23
    /\ aligned[1].minute = 60 - interval

----------------------------------------------------------------------------
(* The readings of the simulator against the rules of ingestion.           *)

ZurichOffset == 60          \* minutes east of UTC in winter

\* the characters of the ids of BUILDINGS_AND_ROOMS
Chars(s) ==
    CASE s = "B1" -> <<"B", "1">>
      [] s = "B2" -> <<"B", "2">>
      [] s = "101" -> <<"1", "0", "1">>
      [] s = "102" -> <<"1", "0", "2">>
      [] s = "201" -> <<"2", "0", "1">>

\* the body POST /v1/temperature/ receives for a reading of the simulator:
\* the timestamp is ISO 8601 text, with a UTC offset when isoformat() wrote one
Posted(data) ==
    [building_id |-> Chars(data.building_id),
     room_id |-> Chars(data.room_id),
     temperature |-> data.temperature,
     timestamp |-> [iso |-> TRUE,
                    dt |-> FromSeconds(ToSeconds(Midnight30) + data.timestamp[1], 0),
                    tzinfo |-> IF Len(data.timestamp) > 1
                               THEN <<ZurichOffset>> ELSE <<>>]]

\* add_temperature takes the body as far as the commit: no validation error
\* and no ValueError for the timestamp
PassesIngestionRules(body) ==
    /\ TemperatureRequestErrors(body) = {}
    /\ add_temperature(NewRequest("add_temperature", body)).pc = "commit"

\* C27: every reading a generator hands to send_with_retry has a temperature
\* in [-50, 50], the building and room the generator was started with and a
\* timestamp that carries its UTC offset, so that ingestion finds no
\* validation error in it; the generator's own timestamp check never fails
C27_ReadingsPassValidation ==
    \A g \in DOMAIN coro :
        /\ coro[g].genPc # "raised"
        /\ \A k \in 1 .. Len(coro[g].handed) :
              LET data == coro[g].handed[k]
              IN  /\ data.temperature >= MinTemp
                  /\ data.temperature <= MaxTemp
                  /\ data.building_id = coro[g].building_id
                  /\ data.room_id = coro[g].room_id
                  /\ <<data.building_id, data.room_id>> \in
                         {BUILDINGS_AND_ROOMS[p] : p \in DOMAIN BUILDINGS_AND_ROOMS}
                  /\ Len(data.timestamp) = 2
                  /\ PassesIngestionRules(Posted(data))

\* the generator of B2/201 ended after handing over a reading of -50 and a
\* reading of 50 degrees
C27_Witness ==
    \E g \in DOMAIN coro :
        /\ coro[g].genPc = "done"
        /\ coro[g].building_id = "B2"
        /\ Len(coro[g].handed) = 2
        /\ coro[g].handed[1].temperature = MinTemp
        /\ coro[g].handed[2].temperature = MaxTemp

----------------------------------------------------------------------------
(* send_with_retry with no attempt allowed.                                *)

\* a generator that awaits send_with_retry(url, data, retries, backoff_factor)
\* for the reading data, as far as the call runs without suspending
SendFromGenerator(data, retries, backoff_factor) ==
    CallSend([Generator(data.building_id, data.room_id, <<1>>)
                 EXCEPT !.genPc = "send", !.temperature_data = <<data>>,
                        !.handed = <<data>>],
             data, retries, backoff_factor)

\* C28: send_with_retry called with retries = 0 returns False in the step
\* that calls it, having issued no POST and no sleep; a generator that awaits
\* such a call logs the reading as failed and goes on to its periodic sleep
\* without a request having been made
C28_ZeroRetriesSendsNothing ==
    /\ \A g \in DOMAIN coro :
          LET t == coro[g]
          IN  t.sendPc \notin {"idle", "called"} /\ t.retries = 0 =>
                /\ t.sendPc = "returned"
                /\ t.result = <<FALSE>>
                /\ t.trace = <<>>
                /\ t.outcomes = <<>>
    /\ \A b \in 0 .. MaxBackoff :
          LET t == SendFromGenerator(TestPayload, 0, b)
          IN  /\ t.sendPc = "returned"
              /\ t.result = <<FALSE>>
              /\ t.trace = <<>>
              /\ t.log = <<<<"error", TestPayload>>>>
              /\ t.genPc = "sleep"

\* the call with retries = 0 and a backoff factor of 2 has returned False
C28_Witness ==
    \E g \in DOMAIN coro :
        /\ coro[g].sendPc = "returned"
        /\ coro[g].retries = 0
        /\ coro[g].backoff_factor = 2
        /\ coro[g].result = <<FALSE>>
        /\ coro[g].trace = <<>>

====
